---------------------------- MODULE Spec2Model ----------------------------
(***************************************************************************)
(* Model of the BioEcoOcean metadata pipeline.                             *)
(*                                                                         *)
(*   Harvester  (src/metadata-cat.py): list_community_records,            *)
(*              fetch_record_jsonld, _metadata_to_schema_stub,             *)
(*              harvest_obis_rss, build_catalogue, main.                   *)
(*   Projector  (src/export_json.py): load_graph, parse_zenodo_rec_id,     *)
(*              slugify, extract_doi, dataset_to_project,                  *)
(*              build_sitemap_xml, main.                                   *)
(*                                                                         *)
(* Python strings are sequences of one-character strings, so that          *)
(* substring tests, splits, slugs and f-strings are computed and not       *)
(* assumed.  A Python value that may be None, a str or a dict is a tagged  *)
(* record: [t |-> "none"], [t |-> "str", v |-> chars],                     *)
(* [t |-> "dict", value |-> tagged, url |-> tagged], [t |-> "list"].       *)
(***************************************************************************)
EXTENDS Integers, Sequences, FiniteSets, TLC

VARIABLES
    \* ---- Harvester (metadata-cat.py) ----
    community,   \* args.community
    max_pages,   \* args.max_pages: <<>> is None, <<n>> is the integer n
    hpc,         \* position of the harvest run: "list","fetch","done","aborted"
    page,        \* params["page"] of list_community_records
    all_hits,    \* all_hits of list_community_records / hits of build_catalogue
    idx,         \* index of the next hit of build_catalogue's for loop
    catalogue,   \* catalogue of build_catalogue
    outfile,     \* the catalogue file: <<>> not written, <<graph>> written
    hexit,       \* process outcome: "running", "0", "traceback"
    log,         \* history: every network request and every time.sleep, in order
    fetched,     \* history: the detail-fetch response of each processed hit
    feed,        \* history: the RSS response (<<>> when no RSS request was made)
    \* ---- Projector (export_json.py) ----
    doc,         \* the parsed input document (json.load of args.input)
    base_url,    \* args.base_url (tagged: none or str)
    out_dir,     \* args.out_dir resolved: S(path relative to cwd), NoneV when outside cwd
    want_sitemap,\* args.sitemap is given
    ppc,         \* position of the projector run: "start","loop","done"
    records,     \* records of main (result of load_graph)
    pidx,        \* idx of main's enumerate loop (next record, 1-based)
    dir_made,    \* out_dir.mkdir was called
    files,       \* the output directory: function filename -> file content
    writes,      \* history: [fn, obj] of each file write, in order
    ids,         \* ids of main
    sitemap,     \* the sitemap file: <<>> not written, <<entries>> written
    pexit,       \* process outcome: "running", "0", "1"
    perr         \* lines printed on sys.stderr by the projector

hvars == <<community, max_pages, hpc, page, all_hits, idx, catalogue, outfile,
           hexit, log, fetched, feed>>
pvars == <<doc, base_url, out_dir, want_sitemap, ppc, records, pidx, dir_made,
           files, writes, ids, sitemap, pexit, perr>>
vars == <<hvars, pvars>>

-----------------------------------------------------------------------------
(* Bounds of the model *)

\* largest page number the bounded harvest run requests
MaxPage == 3
\* largest number of hits one search page returns
MaxPageSize == 2
\* largest number of records a listing collects
MaxHits == 2
\* largest "total" the search endpoint reports
MaxTotal == 3
\* largest --max-pages argument
MaxPagesArg == 2
\* largest number of <item> elements in the RSS feed
MaxItems == 2
\* largest number of records in the projector's input catalogue
MaxRecords == 2
\* page numbers from PageCap on are counted modulo 2 in the unbounded listing loop
PageCap == 4

-----------------------------------------------------------------------------
(* Python values *)

NoneV == [t |-> "none"]
S(s) == [t |-> "str", v |-> s]
D(value, url) == [t |-> "dict", value |-> value, url |-> url]
ListV == [t |-> "list"]

\* bool(x) for the tagged values the programs test
Truthy(x) ==
    CASE x.t = "none" -> FALSE
      [] x.t = "str" -> x.v # <<>>
      [] x.t = "dict" -> TRUE
      [] OTHER -> TRUE

\* "a or b" where a and b are tagged values
OrElse(a, b) == IF Truthy(a) THEN a ELSE b

\* str in str: sub occurs in s
Contains(s, sub) ==
    \E i \in 0..(Len(s) - Len(sub)) : SubSeq(s, i + 1, i + Len(sub)) = sub

\* s.split(sub, 1)[1], for s containing sub
AfterFirst(s, sub) ==
    LET i == CHOOSE k \in 0..(Len(s) - Len(sub)) :
                 /\ SubSeq(s, k + 1, k + Len(sub)) = sub
                 /\ \A j \in 0..(k - 1) : SubSeq(s, j + 1, j + Len(sub)) # sub
    IN SubSeq(s, i + Len(sub) + 1, Len(s))

\* s.split(c, 1)[0] for a one-character separator c
BeforeFirst(s, c) ==
    IF \E i \in 1..Len(s) : s[i] = c
    THEN LET i == CHOOSE k \in 1..Len(s) :
                      s[k] = c /\ \A j \in 1..(k - 1) : s[j] # c
         IN SubSeq(s, 1, i - 1)
    ELSE s

RECURSIVE LStrip(_, _)
\* s.lstrip(chars)
LStrip(s, chars) ==
    IF s # <<>> /\ Head(s) \in chars THEN LStrip(Tail(s), chars) ELSE s

RECURSIVE RStrip(_, _)
\* s.rstrip(chars)
RStrip(s, chars) ==
    IF s # <<>> /\ s[Len(s)] \in chars
    THEN RStrip(SubSeq(s, 1, Len(s) - 1), chars) ELSE s

Digit == <<"0", "1", "2", "3", "4", "5", "6", "7", "8", "9">>

RECURSIVE IntToStr(_)
\* f"{n}" for an integer n >= 0
IntToStr(n) ==
    IF n < 10 THEN <<Digit[n + 1]>>
    ELSE IntToStr(n \div 10) \o <<Digit[(n % 10) + 1]>>

\* all sequences over set of length 0..n
SeqsUpTo(set, n) == UNION {[1..k -> set] : k \in 0..n}

-----------------------------------------------------------------------------
(* String constants of the programs *)

Https == <<"h", "t", "t", "p", "s", ":", "/", "/">>
\* "zenodo.org/record/": marker of parse_zenodo_rec_id and of the funding rule
Marker == <<"z", "e", "n", "o", "d", "o", ".", "o", "r", "g", "/",
            "r", "e", "c", "o", "r", "d", "/">>
\* "doi.org/"
DoiHost == <<"d", "o", "i", ".", "o", "r", "g", "/">>
\* "https://zenodo.org/record/"
RecordUrlPrefix == Https \o Marker
\* "https://doi.org/"
DoiUrlPrefix == Https \o DoiHost
\* "Zenodo record "
ZenodoRecordName == <<"Z", "e", "n", "o", "d", "o", " ",
                      "r", "e", "c", "o", "r", "d", " ">>
\* "OBIS IPT resource"
ObisName == <<"O", "B", "I", "S", " ", "I", "P", "T", " ",
              "r", "e", "s", "o", "u", "r", "c", "e">>
DEFAULT_COMMUNITY == "bioecoocean"


-----------------------------------------------------------------------------
(* Inputs of the Harvester: what the remote services can answer *)

\* a short title and a DOI value, as the search endpoint reports them
TitleSea == <<"S", "e", "a">>
Doi1 == <<"1", "0", ".", "5", "/", "1">>

\* the "metadata" objects of search hits (title and doi; the other keys of
\* the summary metadata feed only fields of the stub no rule below reads)
MetaFull == [title |-> S(TitleSea), doi |-> S(Doi1)]
MetaEmpty == [title |-> NoneV, doi |-> NoneV]

\* search hits: id is <<>> when the hit has no "id" key
HitPool ==
    { [id |-> <<>>, metadata |-> MetaEmpty],
      [id |-> <<1>>, metadata |-> MetaFull],
      [id |-> <<2>>, metadata |-> MetaEmpty] }

\* responses of the search endpoint to one page request
PageResponses ==
    [ok : BOOLEAN, hits : SeqsUpTo(HitPool, MaxPageSize), total : 0..MaxTotal]

\* a catalogue record: the keys the pipeline reads
Entry(type, atid, url, name, identifier) ==
    [type |-> type, atid |-> atid, url |-> url, name |-> name,
     identifier |-> identifier]

TypeDataset == S(<<"Dataset">>)
TypeCreativeWork == S(<<"CreativeWork">>)

\* linked-data objects the per-record export endpoint can answer with
ExportDoi ==
    Entry(TypeDataset, S(DoiUrlPrefix \o Doi1), S(RecordUrlPrefix \o <<"1">>),
          S(TitleSea), S(DoiUrlPrefix \o Doi1))
ExportIdOnly ==
    Entry(TypeDataset, S(RecordUrlPrefix \o <<"2">>), NoneV, NoneV, NoneV)
ExportDoiUrl ==
    Entry(TypeDataset, NoneV, S(DoiUrlPrefix \o Doi1), S(TitleSea),
          D(S(Doi1), S(DoiUrlPrefix \o Doi1)))
ExportNoType ==
    Entry(NoneV, NoneV, S(RecordUrlPrefix \o <<"1">>), S(TitleSea), NoneV)
ExportEmptyType ==
    Entry(S(<<>>), NoneV, S(RecordUrlPrefix \o <<"2">>), S(TitleSea), NoneV)

ExportPool == {ExportDoi, ExportIdOnly, ExportDoiUrl, ExportNoType, ExportEmptyType}

\* responses of the per-record export endpoint:
\*   exception: requests.get raises (timeout, connection error)
\*   http: a response with a status and a body; the body is "html" (not
\*   JSON), "list" (a JSON array) or "object" (a JSON object)
DetailResponses ==
    { [k |-> "exception", status |-> 0, body |-> "none", obj |-> ExportNoType],
      [k |-> "http", status |-> 404, body |-> "html", obj |-> ExportNoType],
      [k |-> "http", status |-> 200, body |-> "html", obj |-> ExportNoType],
      [k |-> "http", status |-> 200, body |-> "list", obj |-> ExportNoType] }
    \cup { [k |-> "http", status |-> 200, body |-> "object", obj |-> e] :
             e \in ExportPool }

\* <item> elements of the RSS feed: NoneV is an element that is missing or
\* has no text; has_desc is whether the item has a <description> element
LinkFish == Https \o <<"i", "/", "f">>
EmlUrl == Https \o <<"i", "/", "e">>
TitleFish == <<" ", "F", "i", "s", "h">>
ItemPool ==
    { [title |-> S(TitleFish), link |-> S(LinkFish), eml |-> NoneV, has_desc |-> TRUE],
      [title |-> NoneV, link |-> NoneV, eml |-> S(EmlUrl), has_desc |-> TRUE],
      [title |-> NoneV, link |-> S(LinkFish), eml |-> S(EmlUrl), has_desc |-> FALSE] }

\* responses of the RSS endpoint
FeedResponses ==
    { [k |-> "fetch_fail", items |-> <<>>],
      [k |-> "parse_fail", items |-> <<>>],
      [k |-> "no_channel", items |-> <<>>] }
    \cup { [k |-> "channel", items |-> it] : it \in SeqsUpTo(ItemPool, MaxItems) }

-----------------------------------------------------------------------------
(* Harvester: pure functions *)

\* the records list_community_records keeps of one page: hits with an id
CollectHits(acc, hits) ==
    LET kept == SelectSeq(hits, LAMBDA h : h.id # <<>>)
    IN acc \o [i \in 1..Len(kept) |->
                  [id |-> kept[i].id[1], metadata |-> kept[i].metadata]]

\* the three break conditions after a page
StopListing(hits, pg, maxp, collected, total) ==
    \/ hits = <<>>
    \/ (maxp # <<>> /\ pg >= maxp[1])
    \/ Len(collected) >= total

\* fetch_record_jsonld on a response that was received: None, or r.json()
fetch_record_jsonld(resp) ==
    IF resp.status # 200 THEN NoneV
    ELSE CASE resp.body = "html" -> NoneV
           [] resp.body = "list" -> ListV
           [] OTHER -> [t |-> "obj", o |-> resp.obj]

\* _metadata_to_schema_stub (the keys read downstream)
_metadata_to_schema_stub(rec_id, metadata) ==
    LET url == RecordUrlPrefix \o IntToStr(rec_id)
        identifier == IF Truthy(metadata.doi)
                      THEN DoiUrlPrefix \o metadata.doi.v ELSE url
        name == IF Truthy(metadata.title) THEN metadata.title.v
                ELSE ZenodoRecordName \o IntToStr(rec_id)
    IN Entry(TypeCreativeWork, S(url), S(url), S(name), S(identifier))

\* the record build_catalogue appends for a fetch result that is None or a dict
CatalogueRecordFor(ld, hit) ==
    IF ld.t = "obj" /\ Truthy(ld.o.type) THEN ld.o
    ELSE _metadata_to_schema_stub(hit.id, hit.metadata)

\* text.strip() of an element's text
Strip(s) == RStrip(LStrip(s, {" "}), {" "})

\* "el.text.strip() if el is not None and el.text else ''"
TextOrEmpty(el) == IF Truthy(el) THEN Strip(el.v) ELSE <<>>

\* the dataset harvest_obis_rss builds of one <item>
RssDataset(item) ==
    LET title == TextOrEmpty(item.title)
        link == TextOrEmpty(item.link)
        identifier_val == IF Truthy(item.eml) THEN S(Strip(item.eml.v))
                          ELSE IF link # <<>> THEN S(link) ELSE NoneV
        identifier_block == IF Truthy(identifier_val)
                            THEN D(identifier_val, identifier_val) ELSE NoneV
    IN Entry(TypeDataset, NoneV,
             OrElse(OrElse(S(link), identifier_val), S(<<>>)),
             S(IF title # <<>> THEN title ELSE ObisName),
             identifier_block)

\* harvest_obis_rss: raised is TRUE when the call raises ("desc_el.text" of an
\* item without <description>), else datasets is the list it returns
harvest_obis_rss(resp) ==
    IF resp.k # "channel" THEN [raised |-> FALSE, datasets |-> <<>>]
    ELSE IF \E i \in 1..Len(resp.items) : ~resp.items[i].has_desc
         THEN [raised |-> TRUE, datasets |-> <<>>]
         ELSE [raised |-> FALSE,
               datasets |-> [i \in 1..Len(resp.items) |-> RssDataset(resp.items[i])]]

\* entries of the history of requests and sleeps
EvPage(n, ok) == [k |-> "page", n |-> n, ok |-> ok]
EvSleep == [k |-> "sleep", n |-> 0, ok |-> TRUE]
EvDetail(id) == [k |-> "detail", n |-> id, ok |-> TRUE]
EvRss == [k |-> "rss", n |-> 0, ok |-> TRUE]

-----------------------------------------------------------------------------
(* Harvester: the run of main -> build_catalogue *)

HarvesterIdle ==
    /\ community = DEFAULT_COMMUNITY /\ max_pages = <<>> /\ hpc = "idle"
    /\ page = 1 /\ all_hits = <<>> /\ idx = 1 /\ catalogue = <<>>
    /\ outfile = <<>> /\ hexit = "running" /\ log = <<>> /\ fetched = <<>>
    /\ feed = <<>>

ProjectorIdle ==
    /\ doc = [k |-> "other", items |-> <<>>] /\ base_url = NoneV
    /\ out_dir = NoneV /\ want_sitemap = FALSE /\ ppc = "idle"
    /\ records = <<>> /\ pidx = 1 /\ dir_made = FALSE /\ files = <<>>
    /\ writes = <<>> /\ ids = <<>> /\ sitemap = <<>> /\ pexit = "running"
    /\ perr = <<>>

\* the command line of the Harvester and the state main starts in
HarvesterStart ==
    /\ community \in {DEFAULT_COMMUNITY, "other"}
    /\ max_pages \in {<<>>} \cup {<<n>> : n \in 1..MaxPagesArg}
    /\ hpc = "list" /\ page = 1 /\ all_hits = <<>> /\ idx = 1
    /\ catalogue = <<>> /\ outfile = <<>> /\ hexit = "running"
    /\ log = <<>> /\ fetched = <<>> /\ feed = <<>>

\* the run ends with an uncaught exception: nothing more is done
Abort ==
    /\ hpc' = "aborted"
    /\ hexit' = "traceback"

\* mutant: the status of the response is not checked
RaiseForStatusNever(resp) == FALSE

\* r.raise_for_status() raises for a non-success response
RaiseForStatus(resp) == ~resp.ok

\* what one iteration of the while loop does on the network and the clock:
\* the request, and the sleep when the loop goes on to the next page
PageEvents(pg, ok, more) ==
    IF more THEN <<EvPage(pg, ok), EvSleep>> ELSE <<EvPage(pg, ok)>>

\* mutant: no sleep after a detail fetch
DetailEventsNoSleep(id, raised) == <<EvDetail(id)>>

\* what one iteration of the for loop does on the network and the clock:
\* the request, and the sleep unless the iteration raised
DetailEvents(id, raised) ==
    IF raised THEN <<EvDetail(id)>> ELSE <<EvDetail(id), EvSleep>>

\* one iteration of the while loop of list_community_records on the
\* response resp: raise_for_status, the collection of hits, the breaks and
\* the page increment (page numbers from cap on are counted modulo 2: cap,
\* cap + 1, cap, ...)
ListIteration(resp, cap) ==
    LET collected == CollectHits(all_hits, resp.hits) IN
    /\ Len(collected) <= MaxHits
    /\ IF RaiseForStatus(resp)
       THEN /\ Abort
            /\ UNCHANGED <<page, all_hits>>
       ELSE /\ all_hits' = collected
            /\ hexit' = hexit
            /\ IF StopListing(resp.hits, page, max_pages, collected, resp.total)
               THEN /\ hpc' = "fetch"
                    /\ page' = page
               ELSE /\ hpc' = "list"
                    /\ page' = IF page <= cap THEN page + 1 ELSE cap
    /\ UNCHANGED <<community, max_pages, idx, catalogue, outfile, fetched, feed>>
    /\ UNCHANGED pvars

\* one iteration of the while loop, with its request and sleep recorded;
\* the run is followed up to page MaxPage
ListPage ==
    /\ hpc = "list"
    /\ page <= MaxPage
    /\ \E resp \in PageResponses :
         /\ ListIteration(resp, MaxPage + 1)
         /\ log' = log \o PageEvents(page, resp.ok, hpc' = "list")

\* one iteration of the while loop with no bound on the number of pages:
\* the history is not kept and page numbers from PageCap on are counted
\* modulo 2 (max_pages < PageCap, so every comparison of the loop is unchanged)
ListPageUnbounded ==
    /\ hpc = "list"
    /\ \E resp \in PageResponses : ListIteration(resp, PageCap)
    /\ UNCHANGED log

\* one iteration of the for loop of build_catalogue: fetch_record_jsonld,
\* the @type test, the append and the sleep
FetchRecord ==
    /\ hpc = "fetch"
    /\ idx <= Len(all_hits)
    /\ \E resp \in DetailResponses :
         LET hit == all_hits[idx]
             ld == fetch_record_jsonld(resp)
             \* requests.get raised, or ld.get raised AttributeError on a list
             raised == resp.k = "exception" \/ ld.t = "list" IN
         /\ log' = log \o DetailEvents(hit.id, raised)
         /\ fetched' = Append(fetched, resp)
         /\ IF raised
            THEN /\ Abort
                 /\ UNCHANGED <<idx, catalogue>>
            ELSE /\ catalogue' = Append(catalogue, CatalogueRecordFor(ld, hit))
                 /\ idx' = idx + 1
                 /\ UNCHANGED <<hpc, hexit>>
    /\ UNCHANGED <<community, max_pages, page, all_hits, outfile, feed>>
    /\ UNCHANGED pvars

\* mutant: the feed is harvested for every community
HarvestsRssAlways(c) == TRUE

\* "if community == DEFAULT_COMMUNITY" of build_catalogue
HarvestsRss(c) == c = DEFAULT_COMMUNITY

\* the end of build_catalogue (the RSS harvest of the default community)
\* and the rest of main (the catalogue file)
FinishCatalogue ==
    /\ hpc = "fetch"
    /\ idx > Len(all_hits)
    /\ IF HarvestsRss(community)
       THEN \E resp \in FeedResponses :
              LET got == harvest_obis_rss(resp) IN
              /\ log' = Append(log, EvRss)
              /\ feed' = <<resp>>
              /\ IF got.raised
                 THEN /\ Abort
                      /\ UNCHANGED <<catalogue, outfile>>
                 ELSE /\ catalogue' = catalogue \o got.datasets
                      /\ outfile' = <<catalogue'>>
                      /\ hpc' = "done"
                      /\ hexit' = "0"
       ELSE /\ outfile' = <<catalogue>>
            /\ hpc' = "done"
            /\ hexit' = "0"
            /\ UNCHANGED <<log, feed, catalogue>>
    /\ UNCHANGED <<community, max_pages, page, all_hits, idx, fetched>>
    /\ UNCHANGED pvars

-----------------------------------------------------------------------------
(* Projector: pure functions *)

\* load_graph on the parsed document: a dict with a list "@graph" (k =
\* "graph"), a list (k = "array"), or anything else (k = "other")
load_graph(d) ==
    CASE d.k = "graph" -> d.items
      [] d.k = "array" -> d.items
      [] OTHER -> <<>>

\* entry.get("url") or entry.get("@id") or ""
EntryUrl(entry) == OrElse(OrElse(entry.url, entry.atid), S(<<>>)).v

\* parse_zenodo_rec_id: S(rec_id) or NoneV
parse_zenodo_rec_id(entry) ==
    LET url == EntryUrl(entry) IN
    IF Contains(url, Marker)
    THEN LET tail == AfterFirst(url, Marker)
             rec_id == BeforeFirst(BeforeFirst(tail, "/"), "?")
         IN IF rec_id # <<>> THEN S(rec_id) ELSE NoneV
    ELSE NoneV

UpperCase == <<"A", "B", "C", "D", "E", "F", "G", "H", "I", "J", "K", "L", "M",
               "N", "O", "P", "Q", "R", "S", "T", "U", "V", "W", "X", "Y", "Z">>
LowerCase == <<"a", "b", "c", "d", "e", "f", "g", "h", "i", "j", "k", "l", "m",
               "n", "o", "p", "q", "r", "s", "t", "u", "v", "w", "x", "y", "z">>

\* c.lower()
Lower(c) ==
    IF \E i \in 1..Len(UpperCase) : UpperCase[i] = c
    THEN LowerCase[CHOOSE i \in 1..Len(UpperCase) : UpperCase[i] = c]
    ELSE c

\* c matches [a-z0-9]
IsSlugChar(c) ==
    \/ \E i \in 1..Len(LowerCase) : LowerCase[i] = c
    \/ \E i \in 1..Len(Digit) : Digit[i] = c

RECURSIVE HyphenateRuns(_)
\* re.sub(r"[^a-z0-9]+", "-", text): each maximal run becomes one "-"
HyphenateRuns(t) ==
    IF t = <<>> THEN <<>>
    ELSE IF IsSlugChar(Head(t)) THEN <<Head(t)>> \o HyphenateRuns(Tail(t))
    ELSE LET rest == HyphenateRuns(Tail(t)) IN
         IF Tail(t) # <<>> /\ ~IsSlugChar(Head(Tail(t))) THEN rest
         ELSE <<"-">> \o rest

\* slugify
slugify(text) ==
    LET lowered == Strip([i \in 1..Len(text) |-> Lower(text[i])])
        hyphened == HyphenateRuns(lowered)
        trimmed == RStrip(LStrip(hyphened, {"-"}), {"-"})
    IN IF trimmed # <<>> THEN trimmed
       ELSE <<"r", "e", "c", "o", "r", "d">>

\* extract_doi: <<doi_val, doi_url>>, each S(..) or NoneV
extract_doi(identifier) ==
    LET doi_val ==
            CASE identifier.t = "str" ->
                    IF Contains(identifier.v, DoiHost)
                    THEN S(AfterFirst(identifier.v, DoiHost))
                    ELSE identifier
              [] identifier.t = "dict" ->
                    IF identifier.value.t = "str" THEN identifier.value ELSE NoneV
              [] OTHER -> NoneV
        doi_url ==
            CASE identifier.t = "str" ->
                    IF Contains(identifier.v, DoiHost) THEN identifier ELSE NoneV
              [] identifier.t = "dict" ->
                    IF identifier.url.t = "str" /\ Contains(identifier.url.v, DoiHost)
                    THEN identifier.url ELSE NoneV
              [] OTHER -> NoneV
    IN IF Truthy(doi_val) /\ ~Truthy(doi_url)
       THEN <<doi_val, S(DoiUrlPrefix \o doi_val.v)>>
       ELSE <<doi_val, doi_url>>

\* the identifier block of dataset_to_project: a PropertyValue or NoneV
IdentifierBlock(entry) ==
    LET doi == extract_doi(entry.identifier)
        url == EntryUrl(entry) IN
    IF Truthy(doi[1])
    THEN [t |-> "dict", description |-> "DOI",
          propertyID |-> "https://registry.identifiers.org/registry/doi",
          url |-> IF Truthy(doi[2]) THEN doi[2].v ELSE DoiUrlPrefix \o doi[1].v,
          value |-> doi[1].v]
    ELSE IF url # <<>>
    THEN [t |-> "dict", description |-> "Record URL", propertyID |-> "url",
          url |-> url, value |-> url]
    ELSE NoneV

\* BIOECOOCEAN_FUNDING
BIOECOOCEAN_FUNDING ==
    [t |-> "grant", name |-> "BioEcoOcean (Horizon Europe)", identifier |-> "101136748"]

\* "if url and 'zenodo.org/record/' in url" of dataset_to_project
AttachesFunding(url) == url # <<>> /\ Contains(url, Marker)

\* the @id of dataset_to_project: S(..), or NoneV without a base URL
ProjectId(base, rel_path) ==
    IF Truthy(base)
    THEN S(RStrip(base.v, {"/"}) \o <<"/">> \o LStrip(rel_path, {".", "/"}))
    ELSE NoneV

\* dataset_to_project: the keys name, url, identifier, funding and @id of
\* the project (description, publishingPrinciples and keywords are computed
\* from description, license and keywords alone and are left out)
dataset_to_project(entry, base, rel_path) ==
    LET rec_id == parse_zenodo_rec_id(entry)
        url == EntryUrl(entry) IN
    [type |-> "Project",
     name |-> IF Truthy(entry.name) THEN entry.name.v
              ELSE IF Truthy(rec_id) THEN ZenodoRecordName \o rec_id.v
              ELSE <<"R", "e", "c", "o", "r", "d">>,
     url |-> url,
     identifier |-> IdentifierBlock(entry),
     funding |-> IF AttachesFunding(url) THEN BIOECOOCEAN_FUNDING ELSE NoneV,
     atid |-> ProjectId(base, rel_path)]

DotJson == <<".", "j", "s", "o", "n">>

\* the file name main gives the idx-th record
FileName(entry, i) ==
    LET rec_id == parse_zenodo_rec_id(entry)
        base_name == IF Truthy(entry.name) THEN entry.name.v
                     ELSE IF Truthy(rec_id) THEN rec_id.v
                     ELSE <<"r", "e", "c", "o", "r", "d", "-">> \o IntToStr(i)
        slug == slugify(base_name)
    IN IF Truthy(rec_id) /\ ~Contains(slug, rec_id.v)
       THEN slug \o <<"-">> \o rec_id.v \o DotJson
       ELSE slug \o DotJson

\* rel_for_id of main: out_path relative to cwd, or the bare file name when
\* out_dir is outside cwd (relative_to raises ValueError)
RelForId(dir, filename) ==
    IF dir.t = "str" THEN dir.v \o <<"/">> \o filename ELSE filename

\* html.escape(c, quote=True) of one character
EscapeChar(c) ==
    CASE c = "&" -> <<"&", "a", "m", "p", ";">>
      [] c = "<" -> <<"&", "l", "t", ";">>
      [] c = ">" -> <<"&", "g", "t", ";">>
      [] c = "\"" -> <<"&", "q", "u", "o", "t", ";">>
      [] c = "'" -> <<"&", "#", "x", "2", "7", ";">>
      [] OTHER -> <<c>>

RECURSIVE HtmlEscape(_)
\* html.escape(s, quote=True)
HtmlEscape(s) ==
    IF s = <<>> THEN <<>> ELSE EscapeChar(Head(s)) \o HtmlEscape(Tail(s))

RECURSIVE DropRepeats(_)
DropRepeats(q) ==
    IF q = <<>> THEN <<>>
    ELSE LET init == SubSeq(q, 1, Len(q) - 1) IN
         IF \E i \in 1..Len(init) : init[i] = q[Len(q)]
         THEN DropRepeats(init)
         ELSE Append(DropRepeats(init), q[Len(q)])

\* mutant: an @id is listed once
build_sitemap_xml_dedup(id_seq) ==
    LET id_list == DropRepeats(SelectSeq(id_seq, LAMBDA x : x # <<>>))
    IN [i \in 1..Len(id_list) |-> HtmlEscape(id_list[i])]

\* build_sitemap_xml: the contents of the <loc> elements, in order
build_sitemap_xml(id_seq) ==
    LET id_list == SelectSeq(id_seq, LAMBDA x : x # <<>>)
    IN [i \in 1..Len(id_list) |-> HtmlEscape(id_list[i])]

\* mutant: the empty check is missing
NoRecordsNever(recs) == FALSE

\* "if not records" of main
NoRecords(recs) == recs = <<>>

-----------------------------------------------------------------------------
(* Inputs of the Projector *)

\* the records the Harvester can put in a catalogue: stubs of listed hits,
\* exports that were kept, datasets of feed items
StubPool ==
    {_metadata_to_schema_stub(h.id[1], h.metadata) : h \in {x \in HitPool : x.id # <<>>}}
KeptExportPool == {e \in ExportPool : Truthy(e.type)}
RssPool == {RssDataset(it) : it \in ItemPool}
RecordPool == StubPool \cup KeptExportPool \cup RssPool

\* parsed input documents
DocPool ==
    { [k |-> "other", items |-> <<>>] }
    \cup { [k |-> kind, items |-> recs] :
             kind \in {"graph", "array"}, recs \in SeqsUpTo(RecordPool, MaxRecords) }

BaseX == Https \o <<"x">>
BaseUrlPool == { NoneV, S(<<>>), S(BaseX), S(BaseX \o <<"/">>),
                 S(BaseX \o <<"?", "a", "&", "b">>) }

OutDirPool == { S(<<"o", "u", "t">>), S(<<".", "o">>), NoneV }

\* the command line of the Projector, the input file and the state main
\* starts in
ProjectorStart ==
    /\ doc \in DocPool
    /\ base_url \in BaseUrlPool
    /\ out_dir \in OutDirPool
    /\ want_sitemap \in BOOLEAN
    /\ ppc = "start" /\ records = <<>> /\ pidx = 1 /\ dir_made = FALSE
    /\ files = <<>> /\ writes = <<>> /\ ids = <<>> /\ sitemap = <<>>
    /\ pexit = "running" /\ perr = <<>>

-----------------------------------------------------------------------------
(* Projector: the run of main *)

\* load_graph, the empty check and out_dir.mkdir
LoadRecords ==
    /\ ppc = "start"
    /\ records' = load_graph(doc)
    /\ IF NoRecords(records')
       THEN /\ perr' = Append(perr, "No records found")
            /\ pexit' = "1"
            /\ ppc' = "done"
            /\ UNCHANGED dir_made
       ELSE /\ dir_made' = TRUE
            /\ ppc' = "loop"
            /\ UNCHANGED <<perr, pexit>>
    /\ UNCHANGED <<doc, base_url, out_dir, want_sitemap, pidx, files, writes,
                   ids, sitemap>>
    /\ UNCHANGED hvars

\* one iteration of the for loop of main: the file name, the project, the
\* file write and the append to ids
ProjectRecord ==
    /\ ppc = "loop"
    /\ pidx <= Len(records)
    /\ LET entry == records[pidx]
           filename == FileName(entry, pidx)
           project_obj == dataset_to_project(entry, base_url, RelForId(out_dir, filename))
       IN /\ files' = (filename :> project_obj) @@ files
          /\ writes' = Append(writes, [fn |-> filename, obj |-> project_obj])
          /\ ids' = IF project_obj.atid.t = "str" /\ project_obj.atid.v # <<>>
                    THEN Append(ids, project_obj.atid.v) ELSE ids
    /\ pidx' = pidx + 1
    /\ UNCHANGED <<doc, base_url, out_dir, want_sitemap, ppc, records, dir_made,
                   sitemap, pexit, perr>>
    /\ UNCHANGED hvars

\* the end of main: the message, the sitemap when asked for, exit 0
FinishProjector ==
    /\ ppc = "loop"
    /\ pidx > Len(records)
    /\ IF want_sitemap
       THEN /\ sitemap' = <<build_sitemap_xml(ids)>>
            /\ perr' = perr \o <<"Wrote project JSON files", "Wrote sitemap">>
       ELSE /\ sitemap' = sitemap
            /\ perr' = Append(perr, "Wrote project JSON files")
    /\ pexit' = "0"
    /\ ppc' = "done"
    /\ UNCHANGED <<doc, base_url, out_dir, want_sitemap, records, pidx, dir_made,
                   files, writes, ids>>
    /\ UNCHANGED hvars

ProjInit == HarvesterIdle /\ ProjectorStart

ProjNext == LoadRecords \/ ProjectRecord \/ FinishProjector

ProjSpec == ProjInit /\ [][ProjNext]_vars

Init == HarvesterStart /\ ProjectorIdle

Next == ListPage \/ FetchRecord \/ FinishCatalogue

Spec == Init /\ [][Next]_vars

\* the listing loop alone, against an endpoint that may answer anything for
\* ever; the loop is a plain sequential loop, so an iteration that can be
\* taken is taken
ListNext == ListPageUnbounded

ListSpec == Init /\ [][ListNext]_vars /\ WF_vars(ListPageUnbounded)

-----------------------------------------------------------------------------
(* Claims about the Harvester *)

\* C1 (as claimed): for every endpoint behaviour the listing is finite: the
\* while loop of list_community_records is eventually left (by a break or
\* by an exception).
C1_ListingIsFinite == <>(hpc # "list")

\* the record the claim C2 expects for the i-th processed hit
ExpectedRecord(i) ==
    LET r == fetched[i] IN
    IF r.k = "http" /\ r.status = 200 /\ r.body = "object" /\ Truthy(r.obj.type)
    THEN r.obj
    ELSE _metadata_to_schema_stub(all_hits[i].id, all_hits[i].metadata)

\* C2 (as claimed): every detail fetch that was made, whatever its outcome,
\* appended exactly one record at the position of its hit, the fetched
\* object iff it is an object with a non-empty @type and the stub
\* otherwise, and no detail fetch aborts the run.
C2_OneRecordPerFetch ==
    /\ Len(fetched) <= Len(catalogue)
    /\ \A i \in 1..Len(fetched) : catalogue[i] = ExpectedRecord(i)
    /\ ~(hpc = "aborted" /\ log # <<>> /\ log[Len(log)].k = "detail")

\* C3: a non-success answer to a page request is the last thing the run
\* does: it is aborted at once, with no later page request (so no retry),
\* no detail fetch, no RSS request and no catalogue file.
C3_ListingFailureAborts ==
    \A i \in 1..Len(log) :
        (log[i].k = "page" /\ ~log[i].ok) =>
            /\ i = Len(log)
            /\ hpc = "aborted" /\ hexit = "traceback"
            /\ outfile = <<>>
            /\ fetched = <<>> /\ feed = <<>>
            /\ \A j \in 1..Len(log) : log[j].k \in {"page", "sleep"}

\* C3 witness: page 2 fails after page 1 succeeded
C3_Witness ==
    /\ Len(log) = 3
    /\ log[1] = EvPage(1, TRUE)
    /\ log[3] = EvPage(2, FALSE)
    /\ hpc = "aborted"

\* the records derived from the search listing, in listing order
SearchDerived ==
    [i \in 1..Len(all_hits) |-> CatalogueRecordFor(fetch_record_jsonld(fetched[i]), all_hits[i])]

\* the datasets of the feed, in feed order (none when the feed could not be
\* fetched or parsed)
FeedDerived ==
    IF feed # <<>> /\ feed[1].k = "channel"
    THEN [i \in 1..Len(feed[1].items) |-> RssDataset(feed[1].items[i])]
    ELSE <<>>

\* C4: an RSS request is made only for the default community and only after
\* every listed record was processed; it is the last request; a finished run
\* holds the search-derived records in listing order followed by the feed's
\* datasets in feed order, and only the search-derived records when the
\* community is another one or the feed could not be fetched or parsed.
C4_RssAfterRecords ==
    /\ \A i \in 1..Len(log) :
          log[i].k = "rss" =>
              /\ community = DEFAULT_COMMUNITY
              /\ i = Len(log)
              /\ Len(fetched) = Len(all_hits)
              /\ Cardinality({j \in 1..Len(log) : log[j].k = "detail"}) = Len(all_hits)
    /\ (feed # <<>>) = (\E i \in 1..Len(log) : log[i].k = "rss")
    /\ hpc = "done" =>
          /\ Len(fetched) = Len(all_hits)
          /\ outfile = <<catalogue>>
          /\ SubSeq(catalogue, 1, Len(all_hits)) = SearchDerived
          /\ SubSeq(catalogue, Len(all_hits) + 1, Len(catalogue)) = FeedDerived
          /\ (community # DEFAULT_COMMUNITY => feed = <<>> /\ catalogue = SearchDerived)
    /\ (feed # <<>> /\ feed[1].k \in {"fetch_fail", "parse_fail"})
          => hpc = "done" /\ catalogue = SearchDerived

\* C4 witness: a finished run of the default community with two listed
\* records and two different feed items
C4_Witness ==
    /\ hpc = "done"
    /\ community = DEFAULT_COMMUNITY
    /\ Len(all_hits) = 2
    /\ all_hits[1] # all_hits[2]
    /\ feed # <<>> /\ feed[1].k = "channel"
    /\ Len(feed[1].items) = 2
    /\ feed[1].items[1] # feed[1].items[2]
    /\ Len(catalogue) = 4

IsRequest(e) == e.k # "sleep"

\* C5: between a page request and the next page request, and between a
\* detail fetch and the next request of any kind, there is exactly one sleep.
C5_DelaysBetweenRequests ==
    \A i \in 1..Len(log) : \A j \in (i + 1)..Len(log) :
        ( /\ IsRequest(log[i]) /\ IsRequest(log[j])
          /\ \A m \in (i + 1)..(j - 1) : ~IsRequest(log[m])
          /\ \/ log[i].k = "detail"
             \/ (log[i].k = "page" /\ log[j].k = "page") )
        => j = i + 2

\* C5 witness: two page requests, two detail fetches and the RSS request
C5_Witness ==
    /\ Len(log) = 8
    /\ log[1].k = "page" /\ log[3].k = "page"
    /\ log[4].k = "detail" /\ log[6].k = "detail"
    /\ log[8].k = "rss"

-----------------------------------------------------------------------------
(* Claims about the Projector *)

\* C6 (as claimed): the files written so far are as many as the records
\* processed and each still holds the project of its own record: no file
\* was overwritten by a later record.
C6_OneFilePerRecord ==
    /\ Cardinality(DOMAIN files) = Len(writes)
    /\ \A i \in 1..Len(writes) : files[writes[i].fn] = writes[i].obj

\* the @id values of the emitted projects in emission order, without the
\* projects that have none, as they appear in <loc> elements
EmittedIds ==
    LET with_id == SelectSeq(writes, LAMBDA w : w.obj.atid.t = "str")
    IN [i \in 1..Len(with_id) |-> HtmlEscape(with_id[i].obj.atid.v)]

\* C7: a sitemap is written only by a successful run that was asked for
\* one; its entries are the @id values of the emitted projects in emission
\* order, duplicates included: one per input record with a (non-empty) base
\* URL, none without.
C7_SitemapEntries ==
    /\ (sitemap # <<>>) = (ppc = "done" /\ pexit = "0" /\ want_sitemap)
    /\ sitemap # <<>> =>
          /\ sitemap = <<EmittedIds>>
          /\ Len(writes) = Len(doc.items)
          /\ IF Truthy(base_url)
             THEN /\ Len(sitemap[1]) = Len(doc.items)
                  /\ \A i \in 1..Len(doc.items) :
                        sitemap[1][i] = HtmlEscape(writes[i].obj.atid.v)
             ELSE sitemap[1] = <<>>

\* C7 witness: two different records with the same @id, both listed
C7_Witness ==
    /\ sitemap # <<>>
    /\ Len(records) = 2
    /\ records[1] # records[2]
    /\ Len(sitemap[1]) = 2
    /\ sitemap[1][1] = sitemap[1][2]

\* C8: when the input document yields no records the run ends at once with
\* exit code 1 and one line on stderr, and nothing was created or written.
C8_EmptyCatalogueWritesNothing ==
    ((doc.k = "other" \/ doc.items = <<>>) /\ ppc \notin {"idle", "start"}) =>
        /\ ppc = "done"
        /\ pexit = "1"
        /\ perr = <<"No records found">>
        /\ ~dir_made
        /\ DOMAIN files = {}
        /\ writes = <<>>
        /\ sitemap = <<>>

\* C8 witness: an empty @graph, with a sitemap asked for
C8_Witness ==
    /\ doc.k = "graph" /\ doc.items = <<>>
    /\ want_sitemap
    /\ ppc = "done"
    /\ pexit = "1"

\* C9 (as claimed): the funding block is attached iff the record's url (read
\* as the code reads it: url, else @id) contains the marker; so every record
\* that came from the record-hosting service has it and no RSS dataset has.
C9_FundingForHostedRecords ==
    \A i \in 1..Len(writes) :
        LET e == records[i]
            p == writes[i].obj IN
        /\ (p.funding.t = "grant") = Contains(EntryUrl(e), Marker)
        /\ p.funding.t = "grant" => p.funding.identifier = "101136748"
        /\ e \in StubPool \cup KeptExportPool => p.funding.t = "grant"
        /\ e \in RssPool => p.funding.t = "none"

\* s has the form of a DOI name ("10.")
IsDoiName(s) == Len(s) >= 3 /\ SubSeq(s, 1, 3) = <<"1", "0", ".">>

\* the DOI value an identifier field carries: S(doi) or NoneV
CarriedDoi(identifier) ==
    CASE identifier.t = "str" ->
            IF Contains(identifier.v, DoiHost)
            THEN S(AfterFirst(identifier.v, DoiHost))
            ELSE IF IsDoiName(identifier.v) THEN identifier ELSE NoneV
      [] identifier.t = "dict" ->
            IF identifier.value.t = "str" /\ IsDoiName(identifier.value.v)
            THEN identifier.value ELSE NoneV
      [] OTHER -> NoneV

\* C10 (as claimed): the identifier block is the DOI block exactly when the
\* source identifier carries a DOI value; otherwise the "Record URL" block
\* of the record's url when it has one; otherwise it is left out.  So a stub
\* without doi and an RSS dataset get the "Record URL" block.
C10_IdentifierPrefersDoi ==
    \A i \in 1..Len(writes) :
        LET e == records[i]
            b == writes[i].obj.identifier
            doi == CarriedDoi(e.identifier) IN
        IF doi.t = "str"
        THEN /\ b.t = "dict" /\ b.description = "DOI"
             /\ b.propertyID = "https://registry.identifiers.org/registry/doi"
             /\ b.value = doi.v
             /\ b.url = DoiUrlPrefix \o doi.v
        ELSE IF EntryUrl(e) # <<>>
        THEN /\ b.t = "dict" /\ b.description = "Record URL"
             /\ b.url = EntryUrl(e) /\ b.value = EntryUrl(e)
        ELSE b = NoneV

\* path without one leading "./", every other character kept
WithoutDotSlashPrefix(path) ==
    IF Len(path) >= 2 /\ SubSeq(path, 1, 2) = <<".", "/">>
    THEN SubSeq(path, 3, Len(path)) ELSE path

\* C11 (as claimed): a written project has an @id iff a non-empty base URL
\* was given, and then the @id is the base URL without trailing slashes, "/",
\* and the relative path of the written file with only a leading "./"
\* removed, so that a dot-directory keeps its leading ".".
C11_IdKeepsRelativePath ==
    \A i \in 1..Len(writes) :
        LET a == writes[i].obj.atid
            rel == RelForId(out_dir, writes[i].fn) IN
        IF Truthy(base_url)
        THEN /\ a.t = "str"
             /\ a.v = RStrip(base_url.v, {"/"}) \o <<"/">> \o WithoutDotSlashPrefix(rel)
        ELSE a = NoneV

=============================================================================
